---------------------------- MODULE Spec2Model ----------------------------
(***************************************************************************)
(* State-machine model of the interactive chess session controller        *)
(* (class ChessPage of src/src/app/chess/chess.page.spec.ts): move-intent  *)
(* resolution from taps and drags, promotion gating, the two-player clock, *)
(* undo/redo and the deferred game-over reveal.                            *)
(*                                                                         *)
(* The rules engine (chess.js) is an external collaborator.  It is         *)
(* modelled as a finite game graph: every node is a position with a piece  *)
(* placement, a side to move, a check flag, a draw flag and its legal      *)
(* moves.  Square names and SAN strings are labels of that graph.          *)
(***************************************************************************)
EXTENDS Integers, Sequences, FiniteSets, TLC

(***************************************************************************)
(* Bounds of the model                                                     *)
(***************************************************************************)
\* longest engine history explored
MaxPly == 3
\* ticks explored below the configured base time
MaxTicks == 1
\* floating drag proxies that may exist at once (presses without release)
MaxGhosts == 2
\* increments a clock may hold above the base time
MaxBonus == 1
\* milliseconds that pass in one step while a click is suppressed
ElapseMs == 250

(***************************************************************************)
(* Program constants                                                       *)
(***************************************************************************)
TickMs == 100
InitialBaseMs == 600000
DragThreshold == 4
SuppressMs == 250

None == "none"
Colors == {"w", "b"}
Other(c) == IF c = "w" THEN "b" ELSE "w"
\* Of the four pieces the dialog offers (q, r, b, n), the two the explored
\* positions have promotion moves for.
PROMOTION_PIECES == {"q", "n"}

(***************************************************************************)
(* Rules engine: the game graph                                            *)
(***************************************************************************)
Squares == {"e1", "f1", "g1", "h1", "h2", "b7", "a8", "b8", "c7"}

Place(ps) == [s \in Squares |-> IF s \in DOMAIN ps THEN ps[s] ELSE None]

Mv(from, to, flags, san, promo, next) ==
    [from |-> from, to |-> to, flags |-> flags, san |-> san,
     promotion |-> promo, next |-> next]

Node(turn, check, draw, board, moves) ==
    [turn |-> turn, check |-> check, draw |-> draw, board |-> board, moves |-> moves]

\* the moves of the start position that remain once the rook has moved
StartMoves ==
    { Mv("h1", "h2", {"n"}, "Rh2", None, "S2"),
      Mv("b7", "a8", {"c", "p"}, "bxa8=Q#", "q", "S3"),
      Mv("b7", "a8", {"c", "p"}, "bxa8=N", "n", "S4"),
      Mv("b7", "b8", {"n", "p"}, "b8=Q+", "q", "S5"),
      Mv("b7", "b8", {"n", "p"}, "b8=N", "n", "S6") }

StartBoard ==
    Place([e1 |-> "wk", h1 |-> "wr", b7 |-> "wp", c7 |-> "bk", a8 |-> "bq"])

\* S3, S12: checkmate (Black, White to move); S6: stalemate; S4, S21..S23:
\* drawn positions; S5: Black in check, the queen on a8 has no legal move.
\* S24: Black in check after a capture that promotes (bxa8=Q+ from S9).
Positions ==
    [ S0  |-> Node("w", FALSE, FALSE, StartBoard,
                   StartMoves \cup {Mv("e1", "g1", {"k"}, "O-O", None, "S1")}),
      S0b |-> Node("w", FALSE, FALSE, StartBoard, StartMoves),
      S1  |-> Node("b", FALSE, FALSE,
                   Place([g1 |-> "wk", f1 |-> "wr", b7 |-> "wp", c7 |-> "bk", a8 |-> "bq"]),
                   {Mv("c7", "b7", {"c"}, "Kxb7", None, "S8")}),
      S2  |-> Node("b", FALSE, FALSE,
                   Place([e1 |-> "wk", h2 |-> "wr", b7 |-> "wp", c7 |-> "bk", a8 |-> "bq"]),
                   {Mv("a8", "b7", {"c"}, "Qxb7#", None, "S12"),
                    Mv("c7", "b8", {"n"}, "Kb8", None, "S9")}),
      S3  |-> Node("b", TRUE, FALSE,
                   Place([e1 |-> "wk", h1 |-> "wr", a8 |-> "wq", c7 |-> "bk"]), {}),
      S4  |-> Node("b", FALSE, TRUE,
                   Place([e1 |-> "wk", h1 |-> "wr", a8 |-> "wn", c7 |-> "bk"]),
                   {Mv("c7", "b8", {"n"}, "Kb8", None, "S21")}),
      S5  |-> Node("b", TRUE, FALSE,
                   Place([e1 |-> "wk", h1 |-> "wr", b8 |-> "wq", c7 |-> "bk", a8 |-> "bq"]),
                   {Mv("c7", "b8", {"c"}, "Kxb8", None, "S17")}),
      S6  |-> Node("b", FALSE, FALSE,
                   Place([e1 |-> "wk", h1 |-> "wr", b8 |-> "wn", c7 |-> "bk", a8 |-> "bq"]), {}),
      S8  |-> Node("w", FALSE, FALSE,
                   Place([g1 |-> "wk", f1 |-> "wr", b7 |-> "bk", a8 |-> "bq"]),
                   {Mv("f1", "h1", {"n"}, "Rh1", None, "S13")}),
      S9  |-> Node("w", FALSE, FALSE,
                   Place([e1 |-> "wk", h2 |-> "wr", b7 |-> "wp", b8 |-> "bk", a8 |-> "bq"]),
                   {Mv("h2", "h1", {"n"}, "Rh1", None, "S10"),
                    Mv("b7", "a8", {"c", "p"}, "bxa8=Q+", "q", "S24"),
                    Mv("b7", "a8", {"c", "p"}, "bxa8=N", "n", "S22")}),
      S10 |-> Node("b", FALSE, FALSE,
                   Place([e1 |-> "wk", h1 |-> "wr", b7 |-> "wp", b8 |-> "bk", a8 |-> "bq"]),
                   {Mv("b8", "c7", {"n"}, "Kc7", None, "S0b")}),
      S12 |-> Node("w", TRUE, FALSE,
                   Place([e1 |-> "wk", h2 |-> "wr", b7 |-> "bq", c7 |-> "bk"]), {}),
      S13 |-> Node("b", FALSE, FALSE,
                   Place([g1 |-> "wk", h1 |-> "wr", b7 |-> "bk", a8 |-> "bq"]),
                   {Mv("b7", "c7", {"n"}, "Kc7", None, "S14")}),
      S14 |-> Node("w", FALSE, FALSE,
                   Place([g1 |-> "wk", h1 |-> "wr", c7 |-> "bk", a8 |-> "bq"]),
                   {Mv("h1", "f1", {"n"}, "Rf1", None, "S15")}),
      S15 |-> Node("b", FALSE, FALSE,
                   Place([g1 |-> "wk", f1 |-> "wr", c7 |-> "bk", a8 |-> "bq"]),
                   {Mv("c7", "b7", {"n"}, "Kb7", None, "S8")}),
      S17 |-> Node("w", FALSE, FALSE,
                   Place([e1 |-> "wk", h1 |-> "wr", b8 |-> "bk", a8 |-> "bq"]),
                   {Mv("h1", "h2", {"n"}, "Rh2", None, "S18")}),
      S18 |-> Node("b", FALSE, FALSE,
                   Place([e1 |-> "wk", h2 |-> "wr", b8 |-> "bk", a8 |-> "bq"]),
                   {Mv("b8", "c7", {"n"}, "Kc7", None, "S19")}),
      S19 |-> Node("w", FALSE, FALSE,
                   Place([e1 |-> "wk", h2 |-> "wr", c7 |-> "bk", a8 |-> "bq"]),
                   {Mv("h2", "h1", {"n"}, "Rh1", None, "S20")}),
      S20 |-> Node("b", FALSE, FALSE,
                   Place([e1 |-> "wk", h1 |-> "wr", c7 |-> "bk", a8 |-> "bq"]),
                   {Mv("c7", "b8", {"n"}, "Kb8", None, "S17")}),
      S21 |-> Node("w", FALSE, TRUE,
                   Place([e1 |-> "wk", h1 |-> "wr", a8 |-> "wn", b8 |-> "bk"]),
                   {Mv("h1", "h2", {"n"}, "Rh2", None, "S22")}),
      S22 |-> Node("b", FALSE, TRUE,
                   Place([e1 |-> "wk", h2 |-> "wr", a8 |-> "wn", b8 |-> "bk"]),
                   {Mv("b8", "c7", {"n"}, "Kc7", None, "S23")}),
      S23 |-> Node("w", FALSE, TRUE,
                   Place([e1 |-> "wk", h2 |-> "wr", a8 |-> "wn", c7 |-> "bk"]),
                   {Mv("h2", "h1", {"n"}, "Rh1", None, "S4")}),
      S24 |-> Node("b", TRUE, FALSE,
                   Place([e1 |-> "wk", h2 |-> "wr", a8 |-> "wq", b8 |-> "bk"]),
                   {Mv("b8", "a8", {"c"}, "Kxa8", None, "S25")}),
      S25 |-> Node("w", FALSE, FALSE,
                   Place([e1 |-> "wk", h2 |-> "wr", a8 |-> "bk"]),
                   {Mv("h2", "h1", {"n"}, "Rh1", None, "S26")}),
      S26 |-> Node("b", FALSE, FALSE,
                   Place([e1 |-> "wk", h1 |-> "wr", a8 |-> "bk"]),
                   {Mv("a8", "b8", {"n"}, "Kb8", None, "S27")}),
      S27 |-> Node("w", FALSE, FALSE,
                   Place([e1 |-> "wk", h1 |-> "wr", b8 |-> "bk"]),
                   {Mv("h1", "h2", {"n"}, "Rh2", None, "S28")}),
      S28 |-> Node("b", FALSE, FALSE,
                   Place([e1 |-> "wk", h2 |-> "wr", b8 |-> "bk"]),
                   {Mv("b8", "a8", {"n"}, "Ka8", None, "S25")}) ]

PosIds == DOMAIN Positions

\* new Chess(): the start position with an empty history
NewChess == [pos |-> "S0", hist |-> <<>>]

\* game.turn()
Turn(g) == Positions[g.pos].turn

\* game.get(square): the piece code on a square, None when it is empty
Get(g, sq) == Positions[g.pos].board[sq]

WhitePieces == {"wk", "wq", "wr", "wn", "wp"}

\* piece.color of a piece code; None for an empty square
PieceColor(p) == IF p = None THEN None ELSE IF p \in WhitePieces THEN "w" ELSE "b"

\* a verbose Move object: the table entry with the mover's colour
MoveObj(g, m) ==
    [color |-> Turn(g), from |-> m.from, to |-> m.to, flags |-> m.flags,
     san |-> m.san, promotion |-> m.promotion, next |-> m.next]

\* game.moves({verbose: true}): every legal move of the position
AllMoves(g) == {MoveObj(g, m) : m \in Positions[g.pos].moves}

\* game.moves({square, verbose: true})
Moves(g, sq) == {m \in AllMoves(g) : m.from = sq}

\* game.isCheck()
IsCheck(g) == Positions[g.pos].check

\* game.isCheckmate()
IsCheckmate(g) == IsCheck(g) /\ AllMoves(g) = {}

\* game.isStalemate()
IsStalemate(g) == ~IsCheck(g) /\ AllMoves(g) = {}

\* game.isGameOver()
IsGameOver(g) == IsCheckmate(g) \/ IsStalemate(g) \/ Positions[g.pos].draw

\* game.history().length
HistoryLength(g) == Len(g.hist)

\* game.move({from, to, promotion}): the legal moves the object designates.
\* Without a promotion piece it designates no promotion move (chess.js
\* rejects the move).
MatchObj(g, from, to, promo) ==
    {m \in AllMoves(g) : m.from = from /\ m.to = to /\ m.promotion = promo}

\* game.move(san): the legal moves whose SAN is the string
MatchSan(g, san) == {m \in AllMoves(g) : m.san = san}

\* the engine after a legal move: position replaced, move pushed on history
Play(g, m) == [pos |-> m.next, hist |-> Append(g.hist, [move |-> m, prev |-> g.pos])]

\* game.undo() on a non-empty history: the position before the last move
Unplay(g) == [pos |-> g.hist[Len(g.hist)].prev, hist |-> SubSeq(g.hist, 1, Len(g.hist) - 1)]

\* game.load(fen): the position a notation string denotes; None is a string
\* the engine rejects (it throws)
FenStrings == {"fen-check", "fen-invalid"}

ParseFen(fen) == IF fen = "fen-check" THEN "S5" ELSE None


(***************************************************************************)
(* Controller state (the fields of ChessPage)                              *)
(***************************************************************************)
VARIABLES
    game,             \* the rules engine instance
    redoStack,        \* Move objects undone, most recent last
    selected,         \* selected square or None
    lastMoveSquares,  \* highlight set
    promotion,        \* pending promotion request
    gameOver,         \* the visible game-over record
    gameOverTimeout,  \* the pending deferred reveal (gameOverTimeoutId and its callback)
    baseMs, incrementMs, whiteTimeMs, blackTimeMs, activeColor,
    running,          \* the running signal
    timerId,          \* TRUE when timerId holds an interval handle
    intervals,        \* number of live setInterval timers
    touchDrag,        \* the drag in progress
    bound,            \* per modality: the bound move/up handler references are set
    listeners,        \* per modality: move/up listener pairs registered on window
    ghosts,           \* floating proxy elements in the document
    draggingCursor,   \* the dragging-cursor class on the board
    suppressLeft      \* max(0, suppressClickUntil - performance.now())

vars == <<game, redoStack, selected, lastMoveSquares, promotion, gameOver,
          gameOverTimeout, baseMs, incrementMs, whiteTimeMs, blackTimeMs,
          activeColor, running, timerId, intervals, touchDrag, bound, listeners,
          ghosts, draggingCursor, suppressLeft>>

Modalities == {"pointer", "mouse", "touch"}

NoPromotion == [ask |-> FALSE, color |-> None, from |-> None, to |-> None]
NoGameOver == [reason |-> None, winner |-> None]
NoTimeout == [pending |-> FALSE, reason |-> None, winner |-> None]
NoDrag == [active |-> FALSE, from |-> None, moved |-> FALSE, currentOverSquare |-> None]

\* The controller state as one record, so that handlers compose as functions.
\* cues (the playSound calls, in order) and ev (the internal events: commit,
\* flash, confetti, throw, ...) are what the handler emits; they are outputs,
\* not kept from one handler to the next.
Cur ==
    [game |-> game, redoStack |-> redoStack, selected |-> selected,
     lastMoveSquares |-> lastMoveSquares, promotion |-> promotion,
     gameOver |-> gameOver, gameOverTimeout |-> gameOverTimeout,
     baseMs |-> baseMs, incrementMs |-> incrementMs,
     whiteTimeMs |-> whiteTimeMs, blackTimeMs |-> blackTimeMs,
     activeColor |-> activeColor, running |-> running, timerId |-> timerId,
     intervals |-> intervals, touchDrag |-> touchDrag, bound |-> bound,
     listeners |-> listeners, ghosts |-> ghosts,
     draggingCursor |-> draggingCursor, suppressLeft |-> suppressLeft,
     cues |-> <<>>, ev |-> {}]

\* the state a handler leaves becomes the next state
Apply(st) ==
    /\ game' = st.game
    /\ redoStack' = st.redoStack
    /\ selected' = st.selected
    /\ lastMoveSquares' = st.lastMoveSquares
    /\ promotion' = st.promotion
    /\ gameOver' = st.gameOver
    /\ gameOverTimeout' = st.gameOverTimeout
    /\ baseMs' = st.baseMs
    /\ incrementMs' = st.incrementMs
    /\ whiteTimeMs' = st.whiteTimeMs
    /\ blackTimeMs' = st.blackTimeMs
    /\ activeColor' = st.activeColor
    /\ running' = st.running
    /\ timerId' = st.timerId
    /\ intervals' = st.intervals
    /\ touchDrag' = st.touchDrag
    /\ bound' = st.bound
    /\ listeners' = st.listeners
    /\ ghosts' = st.ghosts
    /\ draggingCursor' = st.draggingCursor
    /\ suppressLeft' = st.suppressLeft

Init ==
    /\ game = NewChess
    /\ redoStack = <<>>
    /\ selected = None
    /\ lastMoveSquares = {}
    /\ promotion = NoPromotion
    /\ gameOver = NoGameOver
    /\ gameOverTimeout = NoTimeout
    /\ baseMs = InitialBaseMs
    /\ incrementMs = 0
    /\ whiteTimeMs = InitialBaseMs
    /\ blackTimeMs = InitialBaseMs
    /\ activeColor = "w"
    /\ running = FALSE
    /\ timerId = FALSE
    /\ intervals = 0
    /\ touchDrag = NoDrag
    /\ bound = [m \in Modalities |-> FALSE]
    /\ listeners = [m \in Modalities |-> 0]
    /\ ghosts = 0
    /\ draggingCursor = FALSE
    /\ suppressLeft = 0


(***************************************************************************)
(* Handlers, as functions from the state before to the state after        *)
(***************************************************************************)
Note(st, e) == [st EXCEPT !.ev = @ \cup {e}]

\* playSound(kind): one cue request (haptics and audio are fire-and-forget)
PlaySound(st, kind) == [st EXCEPT !.cues = Append(@, kind)]

\* triggerCheckFlash(): a 600 ms pulse of the checkFlash signal
TriggerCheckFlash(st) == Note(st, "flash")

\* the legalTargets computed signal
LegalTargetsOf(g, sel) == IF sel = None THEN {} ELSE {m.to : m \in Moves(g, sel)}

\* the captureTargets computed signal
CaptureTargetsOf(g, sel) ==
    IF sel = None THEN {}
    ELSE {m.to : m \in {x \in Moves(g, sel) : "c" \in x.flags \/ "e" \in x.flags}}

PauseClocks(st) ==
    [st EXCEPT !.intervals = IF st.timerId THEN @ - 1 ELSE @,
               !.timerId = FALSE,
               !.running = FALSE]

\* startClocks() without the test of running (faulty variant)
StartClocksAgain(st) ==
    [st EXCEPT !.running = TRUE, !.timerId = TRUE, !.intervals = @ + 1]

StartClocks(st) ==
    IF st.running THEN st
    ELSE [st EXCEPT !.running = TRUE, !.timerId = TRUE, !.intervals = @ + 1]

\* resetClocks() that pauses and leaves the remaining times (faulty variant)
ResetClocksKeepsTimes(st) == [PauseClocks(st) EXCEPT !.activeColor = "w"]

ResetClocks(st) ==
    [PauseClocks(st) EXCEPT !.whiteTimeMs = st.baseMs,
                            !.blackTimeMs = st.baseMs,
                            !.activeColor = "w"]

\* setTimeout of the deferred reveal, after clearTimeout of the one pending
ScheduleGameOver(st, reason, winner) ==
    [st EXCEPT !.gameOverTimeout = [pending |-> TRUE, reason |-> reason, winner |-> winner]]

UpdateGameOverBanner(st) ==
    IF IsGameOver(st.game)
    THEN LET p == PauseClocks(st) IN
         IF IsCheckmate(p.game)
         THEN ScheduleGameOver(PlaySound(Note(p, "confetti"), "gameover"),
                               "checkmate", Other(Turn(p.game)))
         ELSE IF IsStalemate(p.game)
         THEN [p EXCEPT !.gameOver = [reason |-> "stalemate", winner |-> None]]
         ELSE [p EXCEPT !.gameOver = [reason |-> "draw", winner |-> None]]
    ELSE [st EXCEPT !.gameOver = NoGameOver]

OnFlag(st) ==
    LET p == PauseClocks(st)
        flagger == IF p.whiteTimeMs <= 0 THEN "White" ELSE "Black"
        winnerColor == IF flagger = "White" THEN "b" ELSE "w"
    IN  ScheduleGameOver(PlaySound(Note(Note(p, "flag"), "confetti"), "gameover"),
                         "time", winnerColor)

\* the cue of a committed move with capture tested before check and castle
\* (faulty variant)
MoveCueCaptureFirst(st, move) ==
    LET isCastle == "k" \in move.flags \/ "q" \in move.flags
        isCapture == "c" \in move.flags \/ "e" \in move.flags
    IN  IF IsCheckmate(st.game) THEN st
        ELSE IF isCapture THEN PlaySound(st, "capture")
        ELSE IF IsCheck(st.game) THEN PlaySound(st, "check")
        ELSE IF isCastle THEN PlaySound(st, "castle")
        ELSE PlaySound(st, "move")

\* the cue of a committed move (sound is on)
MoveCue(st, move) ==
    LET isCastle == "k" \in move.flags \/ "q" \in move.flags
        isCapture == "c" \in move.flags \/ "e" \in move.flags
    IN  IF IsCheckmate(st.game) THEN st
        ELSE IF IsCheck(st.game) THEN PlaySound(st, "check")
        ELSE IF isCastle THEN PlaySound(st, "castle")
        ELSE IF isCapture THEN PlaySound(st, "capture")
        ELSE PlaySound(st, "move")

\* the increment given to the side that is to move next (faulty variant)
ApplyIncrementToOpponent(st, move) ==
    IF st.incrementMs > 0
    THEN IF move.color = "w"
         THEN [st EXCEPT !.blackTimeMs = @ + st.incrementMs]
         ELSE [st EXCEPT !.whiteTimeMs = @ + st.incrementMs]
    ELSE st

\* the increment of the side that just moved
ApplyIncrement(st, move) ==
    IF st.incrementMs > 0
    THEN IF move.color = "w"
         THEN [st EXCEPT !.whiteTimeMs = @ + st.incrementMs]
         ELSE [st EXCEPT !.blackTimeMs = @ + st.incrementMs]
    ELSE st

\* afterMoveUpdate(move) without the reset of redoStack (faulty variant)
AfterMoveUpdateKeepsRedo(st, move) ==
    LET s1 == [st EXCEPT !.selected = None,
                         !.lastMoveSquares = {move.from, move.to}]
        s2 == MoveCue(Note(s1, "commit"), move)
        s3 == UpdateGameOverBanner(s2)
    IN  ApplyIncrement(s3, move)

\* afterMoveUpdate(move); st.game already holds the position after the move
AfterMoveUpdate(st, move) ==
    LET s1 == [st EXCEPT !.redoStack = <<>>,
                         !.selected = None,
                         !.lastMoveSquares = {move.from, move.to}]
        s2 == MoveCue(Note(s1, "commit"), move)
        s3 == UpdateGameOverBanner(s2)
    IN  ApplyIncrement(s3, move)

\* game.move(...) with the one legal move it designates, then the commit
Commit(st, move) == AfterMoveUpdate([st EXCEPT !.game = Play(st.game, move)], move)

Reset(st) ==
    LET s1 == [st EXCEPT !.game = NewChess,
                         !.redoStack = <<>>,
                         !.selected = None,
                         !.lastMoveSquares = {}]
        s2 == UpdateGameOverBanner(s1)
    IN  ResetClocks(s2)

\* undo() that drops the undone move instead of pushing it (faulty variant)
UndoWithoutPush(st) ==
    IF HistoryLength(st.game) = 0 THEN st
    ELSE LET s1 == [st EXCEPT !.game = Unplay(st.game),
                              !.selected = None,
                              !.lastMoveSquares = {}]
         IN  PlaySound(UpdateGameOverBanner(Note(s1, "undo")), "move")

Undo(st) ==
    IF HistoryLength(st.game) = 0 THEN st
    ELSE LET m == st.game.hist[Len(st.game.hist)].move
             s1 == [st EXCEPT !.game = Unplay(st.game),
                              !.redoStack = Append(@, m),
                              !.selected = None,
                              !.lastMoveSquares = {}]
         IN  PlaySound(UpdateGameOverBanner(Note(s1, "undo")), "move")

\* redo(): game.move throws on a SAN that is not legal, after the pop
Redo(st) ==
    IF st.redoStack = <<>> THEN st
    ELSE LET move == st.redoStack[Len(st.redoStack)]
             s1 == [st EXCEPT !.redoStack = SubSeq(@, 1, Len(@) - 1)]
             res == MatchSan(s1.game, move.san)
         IN  IF res = {} THEN Note(s1, "throw")
             ELSE Commit(s1, CHOOSE m \in res : TRUE)

\* loadFEN(fenStr) that clears the session before the engine has accepted
\* the string (faulty variant)
LoadFENClearsFirst(st, fenStr) ==
    LET s0 == [st EXCEPT !.redoStack = <<>>, !.selected = None, !.lastMoveSquares = {}] IN
    IF ParseFen(fenStr) = None THEN Note(s0, "alert")
    ELSE ResetClocks(UpdateGameOverBanner(
             [s0 EXCEPT !.game = [pos |-> ParseFen(fenStr), hist |-> <<>>]]))

\* loadFEN(fenStr): game.load throws on a string it rejects, before any change
LoadFEN(st, fenStr) ==
    IF ParseFen(fenStr) = None THEN Note(st, "alert")
    ELSE LET s1 == [st EXCEPT !.game = [pos |-> ParseFen(fenStr), hist |-> <<>>],
                              !.redoStack = <<>>,
                              !.selected = None,
                              !.lastMoveSquares = {}]
             s2 == UpdateGameOverBanner(s1)
         IN  ResetClocks(s2)

\* setTimeControl(baseMinutes, incSeconds); the arguments are given as
\* baseMinutes * 1200 and incSeconds * 10 to keep sub-minute controls integral
SetTimeControl(st, baseMinutes1200, incSeconds10) ==
    LET base == (baseMinutes1200 * 60 * 1000) \div 1200
        inc == (incSeconds10 * 1000) \div 10
    IN  PauseClocks([st EXCEPT !.baseMs = base,
                               !.incrementMs = inc,
                               !.whiteTimeMs = base,
                               !.blackTimeMs = base,
                               !.activeColor = "w"])

\* the interval callback without the pause during a promotion choice (faulty variant)
TickIgnoringPromotion(st) ==
    LET s1 == IF Turn(st.game) = "w"
              THEN [st EXCEPT !.whiteTimeMs = @ - TickMs]
              ELSE [st EXCEPT !.blackTimeMs = @ - TickMs]
    IN  IF s1.whiteTimeMs <= 0 \/ s1.blackTimeMs <= 0
        THEN OnFlag(Note(s1, "decrement"))
        ELSE Note(s1, "decrement")

\* the interval callback charging the colour held in activeColor instead of
\* the engine's side to move (faulty variant)
TickActiveColor(st) ==
    IF st.promotion.ask THEN st
    ELSE LET s1 == IF st.activeColor = "w"
                   THEN [st EXCEPT !.whiteTimeMs = @ - TickMs]
                   ELSE [st EXCEPT !.blackTimeMs = @ - TickMs]
         IN  IF s1.whiteTimeMs <= 0 \/ s1.blackTimeMs <= 0
             THEN OnFlag(Note(s1, "decrement"))
             ELSE Note(s1, "decrement")

\* the interval callback of startClocks
Tick(st) ==
    IF st.promotion.ask THEN st
    ELSE LET s1 == IF Turn(st.game) = "w"
                   THEN [st EXCEPT !.whiteTimeMs = @ - TickMs]
                   ELSE [st EXCEPT !.blackTimeMs = @ - TickMs]
         IN  IF s1.whiteTimeMs <= 0 \/ s1.blackTimeMs <= 0
             THEN OnFlag(Note(s1, "decrement"))
             ELSE Note(s1, "decrement")

\* the callback of the deferred reveal
RevealGameOver(st) ==
    [st EXCEPT !.gameOver = [reason |-> st.gameOverTimeout.reason,
                             winner |-> st.gameOverTimeout.winner],
               !.gameOverTimeout = NoTimeout]

DismissGameOver(st) ==
    [st EXCEPT !.gameOver = NoGameOver, !.gameOverTimeout = NoTimeout]

ClearSelection(st) == [st EXCEPT !.selected = None, !.lastMoveSquares = {}]


\* the first candidate whose destination is the square (Array.find)
FindTarget(candidates, name) == {m \in candidates : m.to = name}

\* a promotion target played at once as a queen, without asking (faulty variant)
AutoQueen(st, target) ==
    LET res == MatchObj(st.game, target.from, target.to, "q")
    IN  IF res = {} THEN Note(st, "throw") ELSE Commit(st, CHOOSE m \in res : TRUE)

\* the promotion request of a promotion target
AskPromotion(st, target) ==
    [st EXCEPT !.promotion = [ask |-> TRUE, color |-> target.color,
                              from |-> target.from, to |-> target.to]]

\* game.move({from, to}) of a non-promotion target, then afterMoveUpdate
MoveTarget(st, target) ==
    LET res == MatchObj(st.game, target.from, target.to, None)
    IN  IF res = {} THEN Note(st, "throw") ELSE Commit(st, CHOOSE m \in res : TRUE)

\* the press-time test of a piece that is in check and cannot move
StuckInCheck(st, name) == IsCheck(st.game) /\ Moves(st.game, name) = {}

RejectPiece(st) == PlaySound(TriggerCheckFlash(st), "illegal")

OnSquareClick(st, name) ==
    IF st.suppressLeft > 0 THEN st
    ELSE IF st.promotion.ask THEN st
    ELSE IF IsGameOver(st.game) \/ st.gameOver # NoGameOver THEN st
    ELSE IF ~st.running THEN st
    ELSE IF st.selected = None
    THEN LET piece == Get(st.game, name) IN
         IF piece = None
         THEN IF IsCheck(st.game) THEN TriggerCheckFlash(st) ELSE st
         ELSE IF PieceColor(piece) # Turn(st.game)
         THEN PlaySound(IF IsCheck(st.game) THEN TriggerCheckFlash(st) ELSE st, "illegal")
         ELSE IF StuckInCheck(st, name) THEN RejectPiece(st)
         ELSE [st EXCEPT !.selected = name]
    ELSE IF st.selected = name THEN ClearSelection(st)
    ELSE LET found == FindTarget(Moves(st.game, st.selected), name) IN
         IF found = {}
         THEN LET piece == Get(st.game, name) IN
              IF piece # None /\ PieceColor(piece) = Turn(st.game)
              THEN IF StuckInCheck(st, name) THEN RejectPiece(st)
                   ELSE [st EXCEPT !.selected = name]
              ELSE ClearSelection(PlaySound(st, "illegal"))
         ELSE LET target == CHOOSE m \in found : TRUE IN
              IF "p" \in target.flags THEN AskPromotion(st, target)
              ELSE MoveTarget(st, target)

TryMove(st, from, to) ==
    IF st.promotion.ask \/ IsGameOver(st.game) \/ st.gameOver # NoGameOver \/ ~st.running
    THEN st
    ELSE LET found == FindTarget(Moves(st.game, from), to) IN
         IF found = {} THEN ClearSelection(PlaySound(st, "illegal"))
         ELSE LET target == CHOOSE m \in found : TRUE IN
              IF "p" \in target.flags THEN AskPromotion(st, target)
              ELSE MoveTarget(st, target)

\* promote(piece).  An illegal held move makes game.move fail: it throws
\* (the request is kept) or returns null (the request is cleared), by the
\* engine's version.
Promote(st, piece, engineThrows) ==
    LET p == st.promotion IN
    IF ~p.ask \/ p.from = None \/ p.to = None \/ p.color = None THEN st
    ELSE LET res == MatchObj(st.game, p.from, p.to, piece) IN
         IF res = {}
         THEN IF engineThrows THEN Note(st, "throw")
              ELSE [st EXCEPT !.promotion = NoPromotion]
         ELSE Commit([st EXCEPT !.promotion = NoPromotion], CHOOSE m \in res : TRUE)

(***************************************************************************)
(* Drag gestures: pointer, mouse and touch                                 *)
(***************************************************************************)
\* the guard shared by the three press handlers; TRUE when the press starts a drag
PressAccepted(st, from) ==
    /\ ~(st.promotion.ask \/ IsGameOver(st.game) \/ st.gameOver # NoGameOver)
    /\ Get(st.game, from) # None
    /\ PieceColor(Get(st.game, from)) = Turn(st.game)
    /\ ~StuckInCheck(st, from)

\* what a press that is refused does: flash when in check, illegal cue
PressRefused(st, from) ==
    IF st.promotion.ask \/ IsGameOver(st.game) \/ st.gameOver # NoGameOver THEN st
    ELSE IF Get(st.game, from) = None \/ PieceColor(Get(st.game, from)) # Turn(st.game)
    THEN PlaySound(IF IsCheck(st.game) THEN TriggerCheckFlash(st) ELSE st, "illegal")
    ELSE RejectPiece(st)

\* ghost appended, touchDrag set, the modality's move/up listeners bound
BeginDrag(st, from, mod) ==
    [st EXCEPT !.ghosts = @ + 1,
               !.touchDrag = [active |-> TRUE, from |-> from, moved |-> FALSE,
                              currentOverSquare |-> None],
               !.bound = [@ EXCEPT ![mod] = TRUE],
               !.listeners = [@ EXCEPT ![mod] = @ + 1]]

OnPiecePointerDown(st, from, button, pointerType) ==
    IF button # 0 THEN st
    ELSE IF pointerType = "mouse" THEN st
    ELSE IF PressAccepted(st, from) THEN BeginDrag(st, from, "pointer")
    ELSE PressRefused(st, from)

OnMouseDownPiece(st, from, button) ==
    IF button # 0 THEN st
    ELSE IF PressAccepted(st, from) THEN BeginDrag(st, from, "mouse")
    ELSE PressRefused(st, from)

OnPieceTouchStart(st, from, touches) ==
    IF touches # 1 THEN st
    ELSE IF PressAccepted(st, from)
    THEN [BeginDrag(st, from, "touch") EXCEPT !.selected = from]
    ELSE PressRefused(st, from)

\* the hovered square follows the pointer
Hover(st, sq) == [st EXCEPT !.touchDrag.currentOverSquare = sq]

\* onGlobalPointerMove / onGlobalMouseMove: dist is Math.hypot(dx, dy)
OnGlobalPointerMove(st, dist, sq) ==
    IF ~st.touchDrag.active THEN st
    ELSE IF ~st.touchDrag.moved /\ dist > DragThreshold
    THEN Hover([st EXCEPT !.touchDrag.moved = TRUE,
                          !.selected = st.touchDrag.from,
                          !.draggingCursor = TRUE], sq)
    ELSE Hover(st, sq)

OnGlobalMouseMove(st, dist, sq) == OnGlobalPointerMove(st, dist, sq)

OnGlobalTouchMove(st, touches, dist, sq) ==
    IF ~st.touchDrag.active THEN st
    ELSE IF touches # 1 THEN st
    ELSE IF ~st.touchDrag.moved /\ dist > DragThreshold
    THEN Hover([st EXCEPT !.touchDrag.moved = TRUE], sq)
    ELSE Hover(st, sq)

\* removeEventListener of the modality's bound handlers
Unbind(st, mod) ==
    [st EXCEPT !.listeners = [@ EXCEPT ![mod] = IF st.bound[mod] THEN @ - 1 ELSE @],
               !.bound = [@ EXCEPT ![mod] = FALSE]]

\* the release handlers without the window that ignores the click following
\* a drop (faulty variant)
ReleaseWithoutSuppress(st, mod) ==
    LET d == st.touchDrag
        s1 == Unbind([st EXCEPT !.ghosts = @ - 1], mod)
        s2 == IF d.moved /\ d.currentOverSquare # None /\ d.currentOverSquare # d.from
              THEN Note(TryMove(s1, d.from, d.currentOverSquare), "drop")
              ELSE s1
    IN  [s2 EXCEPT !.touchDrag = NoDrag]

\* the release handlers without the test that the drop square differs from
\* the source square (faulty variant)
ReleaseOnOrigin(st, mod) ==
    LET d == st.touchDrag
        s1 == Unbind([st EXCEPT !.ghosts = @ - 1], mod)
        s2 == IF d.moved /\ d.currentOverSquare # None
              THEN [Note(TryMove(s1, d.from, d.currentOverSquare), "drop")
                       EXCEPT !.suppressLeft = SuppressMs]
              ELSE s1
    IN  [s2 EXCEPT !.touchDrag = NoDrag]

\* the part shared by the three release handlers
Release(st, mod) ==
    LET d == st.touchDrag
        s1 == Unbind([st EXCEPT !.ghosts = @ - 1], mod)
        s2 == IF d.moved /\ d.currentOverSquare # None /\ d.currentOverSquare # d.from
              THEN [Note(TryMove(s1, d.from, d.currentOverSquare), "drop")
                       EXCEPT !.suppressLeft = SuppressMs]
              ELSE s1
    IN  [s2 EXCEPT !.touchDrag = NoDrag]

OnGlobalPointerUp(st) ==
    IF ~st.touchDrag.active THEN st
    ELSE [Release(st, "pointer") EXCEPT !.draggingCursor = FALSE]

OnGlobalMouseUp(st) ==
    IF ~st.touchDrag.active THEN st ELSE Release(st, "mouse")

OnGlobalTouchEnd(st) ==
    IF ~st.touchDrag.active THEN st ELSE Release(st, "touch")

CancelActiveDrag(st) ==
    IF ~st.touchDrag.active THEN st
    ELSE LET s1 == Unbind(Unbind(Unbind([st EXCEPT !.ghosts = @ - 1],
                                         "pointer"), "mouse"), "touch")
         IN  [s1 EXCEPT !.touchDrag = NoDrag, !.draggingCursor = FALSE]


(***************************************************************************)
(* Actions: one per handler, inputs drawn from small sets                  *)
(***************************************************************************)
\* time controls offered, <<baseMinutes * 1200, incSeconds * 10>>: 50 ms without
\* increment and 100 ms with an increment of 100 ms
TimeControls == {<<1, 0>>, <<2, 1>>}
\* Math.hypot(dx, dy) of a move event: at the threshold and past it
Distances == {DragThreshold, DragThreshold + 1}
\* the squares a dragged piece is carried over (None: off the board)
HoverSquares == {None, "h1", "h2", "b7", "a8", "b8"}
\* presses: <<square, button, pointerType>>; one press per reason to ignore it
PointerDownEvents ==
    {<<from, 0, "touch">> : from \in Squares} \cup {<<"h1", 1, "touch">>, <<"h1", 0, "mouse">>}
\* presses: <<square, button>>
MouseDownEvents == {<<from, 0>> : from \in Squares} \cup {<<"h1", 1>>}
\* presses: <<square, number of touches>>
TouchStartEvents == {<<from, 1>> : from \in Squares} \cup {<<"h1", 2>>}

\* commits stay within the explored history length, and the clocks within
\* the explored number of increments
InBounds(st) ==
    /\ HistoryLength(st.game) <= MaxPly
    /\ st.ghosts <= MaxGhosts
    /\ st.whiteTimeMs <= st.baseMs + MaxBonus * st.incrementMs
    /\ st.blackTimeMs <= st.baseMs + MaxBonus * st.incrementMs

Do(st) == InBounds(st) /\ Apply(st)

Click == \E name \in Squares : Do(OnSquareClick(Cur, name))

PointerDown == \E p \in PointerDownEvents : Do(OnPiecePointerDown(Cur, p[1], p[2], p[3]))

MouseDown == \E p \in MouseDownEvents : Do(OnMouseDownPiece(Cur, p[1], p[2]))

TouchStart == \E p \in TouchStartEvents : Do(OnPieceTouchStart(Cur, p[1], p[2]))

PointerMove ==
    /\ listeners["pointer"] > 0
    /\ \E dist \in Distances, sq \in HoverSquares : Do(OnGlobalPointerMove(Cur, dist, sq))

MouseMove ==
    /\ listeners["mouse"] > 0
    /\ \E dist \in Distances, sq \in HoverSquares : Do(OnGlobalMouseMove(Cur, dist, sq))

TouchMove ==
    /\ listeners["touch"] > 0
    /\ \E touches \in {1, 2}, dist \in Distances, sq \in HoverSquares :
          Do(OnGlobalTouchMove(Cur, touches, dist, sq))

PointerUp == listeners["pointer"] > 0 /\ Do(OnGlobalPointerUp(Cur))

MouseUp == listeners["mouse"] > 0 /\ Do(OnGlobalMouseUp(Cur))

TouchEnd == listeners["touch"] > 0 /\ Do(OnGlobalTouchEnd(Cur))

\* a press that starts a gesture when no other gesture is in progress
PointerPress == ~touchDrag.active /\ PointerDown

MousePress == ~touchDrag.active /\ MouseDown

TouchPress == ~touchDrag.active /\ TouchStart

\* window blur or the document becoming hidden
Cancel == Do(CancelActiveDrag(Cur))

PromoteChoice ==
    \E piece \in PROMOTION_PIECES, engineThrows \in BOOLEAN :
        Do(Promote(Cur, piece, engineThrows))

UndoMove == Do(Undo(Cur))

RedoMove == Do(Redo(Cur))

ResetGame == Do(Reset(Cur))

LoadPosition == \E fenStr \in FenStrings : Do(LoadFEN(Cur, fenStr))

PickTimeControl == \E tc \in TimeControls : Do(SetTimeControl(Cur, tc[1], tc[2]))

Start == Do(StartClocks(Cur))

Pause == Do(PauseClocks(Cur))

ClockReset == Do(ResetClocks(Cur))

\* the remaining time of the side to move
TimeToMove == IF Turn(game) = "w" THEN whiteTimeMs ELSE blackTimeMs

\* an interval timer fires
ClockTick ==
    /\ intervals > 0
    /\ TimeToMove > baseMs - MaxTicks * TickMs
    /\ Do(Tick(Cur))

\* the 1500 ms timeout of the deferred reveal fires
Reveal == gameOverTimeout.pending /\ Do(RevealGameOver(Cur))

Dismiss == Do(DismissGameOver(Cur))

\* time passes while a synthetic click would still be ignored
TimePasses ==
    /\ suppressLeft > 0
    /\ Do([Cur EXCEPT !.suppressLeft = IF @ > ElapseMs THEN @ - ElapseMs ELSE 0])

\* The session as played with taps and the clock controls.
Next ==
    \/ Click \/ PromoteChoice \/ UndoMove \/ RedoMove \/ ResetGame \/ LoadPosition
    \/ PickTimeControl \/ Start \/ Pause \/ ClockReset \/ ClockTick
    \/ Reveal \/ Dismiss

Spec == Init /\ [][Next]_vars

\* The session as played with taps and one drag gesture at a time on a started
\* clock whose ticks are left out.
NextDrag ==
    \/ Click \/ PointerPress \/ MousePress \/ TouchPress
    \/ PointerMove \/ MouseMove \/ TouchMove
    \/ PointerUp \/ MouseUp \/ TouchEnd \/ Cancel
    \/ PromoteChoice \/ Start \/ TimePasses

SpecDrag == Init /\ [][NextDrag]_vars

\* The gestures alone, a press being free to arrive while another gesture is
\* in progress (a second finger, or the pointer and touch events of one
\* finger); the listeners left registered are counted up to MaxGhosts.
ListenersCounted == \A mod \in Modalities : listeners'[mod] <= MaxGhosts

NextPress ==
    \/ PointerDown /\ ListenersCounted
    \/ MouseDown /\ ListenersCounted
    \/ TouchStart /\ ListenersCounted
    \/ PointerMove \/ MouseMove \/ TouchMove
    \/ PointerUp \/ MouseUp \/ TouchEnd \/ Cancel

SpecPress == Init /\ [][NextPress]_vars

(***************************************************************************)
(* Gestures and outcomes used by the properties                            *)
(***************************************************************************)
\* the press, move and release handler of a modality
PressOf(st, mod, from) ==
    CASE mod = "pointer" -> OnPiecePointerDown(st, from, 0, "touch")
      [] mod = "mouse" -> OnMouseDownPiece(st, from, 0)
      [] OTHER -> OnPieceTouchStart(st, from, 1)

MoveOf(st, mod, dist, sq) ==
    CASE mod = "pointer" -> OnGlobalPointerMove(st, dist, sq)
      [] mod = "mouse" -> OnGlobalMouseMove(st, dist, sq)
      [] OTHER -> OnGlobalTouchMove(st, 1, dist, sq)

ReleaseOf(st, mod) ==
    CASE mod = "pointer" -> OnGlobalPointerUp(st)
      [] mod = "mouse" -> OnGlobalMouseUp(st)
      [] OTHER -> OnGlobalTouchEnd(st)

\* a press on from and a move past the threshold that ends over sq
DragTo(st, mod, from, sq) == MoveOf(PressOf(st, mod, from), mod, DragThreshold + 1, sq)

\* the whole gesture: press, move past the threshold, release over sq
Drop(st, mod, from, sq) == ReleaseOf(DragTo(st, mod, from, sq), mod)

\* the squares that hold a piece of the side to move
OwnSquares(st) == {sq \in Squares : PieceColor(Get(st.game, sq)) = Turn(st.game)}

\* what a tap, a drop, a promotion choice can leave, from the current state
TapOutcomes == {OnSquareClick(Cur, name) : name \in Squares}

DropOutcomes ==
    {Drop(Cur, mod, from, sq) : mod \in Modalities, from \in OwnSquares(Cur),
                                sq \in Squares \cup {None}}

PromoteOutcomes ==
    {Promote(Cur, piece, engineThrows) : piece \in PROMOTION_PIECES, engineThrows \in BOOLEAN}

\* every way a move can be committed
MoveOutcomes == TapOutcomes \cup DropOutcomes \cup PromoteOutcomes \cup {Redo(Cur)}

CommitOutcomes == {r \in MoveOutcomes : "commit" \in r.ev}

\* the last move of a non-empty history
LastMove(g) == g.hist[Len(g.hist)].move

\* the inputs of a drop: <<modality, source square, square released over>>
DropInputs == Modalities \X OwnSquares(Cur) \X (Squares \cup {None})

\* the inputs of promote: <<piece, whether a failing game.move throws>>
PromoteInputs == PROMOTION_PIECES \X BOOLEAN

\* the inputs of a drag that has not been released: <<modality, source
\* square, square hovered>>
DragInputs == Modalities \X OwnSquares(Cur) \X HoverSquares

\* what the operations that move no piece leave, presses and drags apart
ControlOutcomes ==
    {Undo(Cur), Reset(Cur), StartClocks(Cur), PauseClocks(Cur), ResetClocks(Cur),
     Tick(Cur), RevealGameOver(Cur), DismissGameOver(Cur), CancelActiveDrag(Cur)}
    \cup {LoadFEN(Cur, fenStr) : fenStr \in FenStrings}
    \cup {SetTimeControl(Cur, tc[1], tc[2]) : tc \in TimeControls}

(***************************************************************************)
(* Properties                                                              *)
(***************************************************************************)
\* C1: every commit (tap, drop, promotion choice, redo) lengthens the engine
\* history by exactly one and leaves redoStack empty; a tap, drop, promotion
\* choice or redo that commits nothing leaves the history as it is, and a
\* fresh game has an empty history: so N commits from a fresh game with no
\* undo give a history of length N.
C1_CommitCountsAndClearsRedo ==
    /\ HistoryLength(Reset(Cur).game) = 0
    /\ \A r \in MoveOutcomes :
          IF "commit" \in r.ev
          THEN HistoryLength(r.game) = HistoryLength(game) + 1 /\ r.redoStack = <<>>
          ELSE r.game = game

\* two moves committed, nothing left to redo
C1_Witness ==
    /\ HistoryLength(game) = 2
    /\ redoStack = <<>>
    /\ lastMoveSquares = {LastMove(game).from, LastMove(game).to}

\* C2: with two or more undone moves on redoStack, a successful redo()
\* removes only the top entry: the entries below stay, in order.
C2_RedoPopsOnlyTop ==
    (Len(redoStack) >= 2 /\ "commit" \in Redo(Cur).ev)
        => Redo(Cur).redoStack = SubSeq(redoStack, 1, Len(redoStack) - 1)

\* the last committed move is not a promotion
LastIsPlainMove == HistoryLength(game) > 0 /\ LastMove(game).promotion = None

\* C3 as stated: undo() then redo() of a non-promotion move restores the
\* position and the lastMove highlight that held before the undo.
C3_RoundTripRestoresHighlight ==
    LastIsPlainMove =>
        /\ Redo(Undo(Cur)).game = game
        /\ Redo(Undo(Cur)).lastMoveSquares = lastMoveSquares

\* C3 amended: undo() then redo() of a non-promotion move restores the
\* position and the history, and leaves the lastMove highlight on the from
\* and to squares of the replayed move (the highlight before the undo when
\* that highlight was still showing).
C3_RoundTripRestoresPosition ==
    LastIsPlainMove =>
        /\ Redo(Undo(Cur)).game = game
        /\ Redo(Undo(Cur)).lastMoveSquares = {LastMove(game).from, LastMove(game).to}
        /\ lastMoveSquares \in {{}, {LastMove(game).from, LastMove(game).to}}

\* a move whose highlight is gone is undone and redone
C3_Witness ==
    /\ LastIsPlainMove
    /\ lastMoveSquares = {}
    /\ Redo(Undo(Cur)).lastMoveSquares # {}

\* the preconditions of every move application
Accepting(st) ==
    ~st.promotion.ask /\ ~IsGameOver(st.game) /\ st.gameOver = NoGameOver /\ st.running

\* the promotion-flagged legal targets of the piece on a square
PromotionTargets(st, from) ==
    IF from = None THEN {}
    ELSE {m.to : m \in {x \in Moves(st.game, from) : "p" \in x.flags}}

\* a tap or a drop on a promotion-flagged legal target: <<outcome, from, to>>
PromotionIntents ==
    {<<OnSquareClick(Cur, to), selected, to>> : to \in PromotionTargets(Cur, selected)}
    \cup {<<Drop(Cur, i[1], i[2], i[3]), i[2], i[3]>> :
            i \in {j \in Modalities \X OwnSquares(Cur) \X Squares :
                     j[3] \in PromotionTargets(Cur, j[2])}}

\* promote(piece) applies the held move with the piece and commits it
PromotionCompletes(st, q, piece) ==
    /\ HistoryLength(q.game) = HistoryLength(st.game) + 1
    /\ LastMove(q.game).from = st.promotion.from
    /\ LastMove(q.game).to = st.promotion.to
    /\ LastMove(q.game).promotion = piece
    /\ SubSeq(q.game.hist, 1, Len(st.game.hist)) = st.game.hist
    /\ "commit" \in q.ev
    /\ q.redoStack = <<>>
    /\ q.selected = None
    /\ q.lastMoveSquares = {st.promotion.from, st.promotion.to}
    /\ ~q.promotion.ask

\* C4: a tap or drop on a promotion-flagged legal target applies no move
\* (position and history unchanged) and, when moves are accepted, raises the
\* promotion request for that from and to; promote(piece) right after it
\* applies exactly one move, the held one with the chosen piece, runs the
\* commit protocol and clears the request.
C4_PromotionIsTwoPhase ==
    \A i \in PromotionIntents :
        /\ i[1].game = game
        /\ (Accepting(Cur) /\ suppressLeft = 0) =>
              /\ i[1].promotion = [ask |-> TRUE, color |-> Turn(game), from |-> i[2], to |-> i[3]]
              /\ \A piece \in PROMOTION_PIECES, engineThrows \in BOOLEAN :
                    PromotionCompletes(i[1], Promote(i[1], piece, engineThrows), piece)

\* a promotion has been requested and then completed
C4_Witness ==
    /\ HistoryLength(game) > 0
    /\ LastMove(game).promotion # None
    /\ lastMoveSquares = {LastMove(game).from, LastMove(game).to}
    /\ ~promotion.ask

\* the presses and drags of the three modalities
PressOutcomes ==
    {PressOf(Cur, mod, from) : mod \in Modalities, from \in Squares}
    \cup {DragTo(Cur, mod, from, sq) : mod \in Modalities, from \in Squares,
                                        sq \in Squares \cup {None}}

\* C5: while promotion.ask is true, a tap, press, drag, drop, undo() or
\* redo() leaves the position and the history as they are.
C5_PendingPromotionBlocksMoves ==
    promotion.ask =>
        \A r \in TapOutcomes \cup DropOutcomes \cup PressOutcomes \cup {Undo(Cur), Redo(Cur)} :
            r.game = game

\* C6: a tick that fires while promotion.ask is true changes neither
\* remaining time, makes no flag-fall check (nothing is scheduled, running
\* stays true) and leaves the timer active.
C6_TickSkippedWhilePromoting ==
    (promotion.ask /\ intervals > 0) =>
        /\ Tick(Cur).whiteTimeMs = whiteTimeMs
        /\ Tick(Cur).blackTimeMs = blackTimeMs
        /\ "flag" \notin Tick(Cur).ev
        /\ Tick(Cur).gameOverTimeout = gameOverTimeout
        /\ Tick(Cur).gameOver = gameOver
        /\ Tick(Cur).running
        /\ Tick(Cur).timerId
        /\ Tick(Cur).intervals = intervals

\* a tick is due on a pending promotion with the mover's last 100 ms left
C6_Witness == promotion.ask /\ intervals > 0 /\ TimeToMove <= TickMs

\* the commits that deliver checkmate
MatingOutcomes == {r \in CommitOutcomes : IsCheckmate(r.game)}

\* C7: a commit that delivers checkmate pauses the clock in the same step
\* (running false, timer cleared), leaves the gameOver record empty, and the
\* deferred callback then sets gameOver to checkmate won by the mover.
C7_MatePausesThenReveals ==
    \A r \in MatingOutcomes :
        /\ ~r.running
        /\ ~r.timerId
        /\ r.intervals = 0
        /\ r.gameOver = NoGameOver
        /\ r.gameOverTimeout.pending
        /\ RevealGameOver(r).gameOver = [reason |-> "checkmate", winner |-> Turn(game)]

\* checkmate has been delivered with the clock running and is not yet shown
C7_Witness ==
    /\ IsCheckmate(game)
    /\ gameOverTimeout = [pending |-> TRUE, reason |-> "checkmate",
                          winner |-> LastMove(game).color]
    /\ gameOver = NoGameOver
    /\ ~running

\* a tick is due that takes the mover's remaining time to zero or below
FlagFallDue == intervals > 0 /\ ~promotion.ask /\ TimeToMove - TickMs <= 0

\* C8: a tick that takes the side to move to zero or below stops the timer
\* in the same tick (running false, no timer left to decrement) and schedules
\* the gameOver record with reason time, won by the other side.
C8_FlagFallHaltsAndNamesWinner ==
    FlagFallDue =>
        /\ ~Tick(Cur).running
        /\ ~Tick(Cur).timerId
        /\ Tick(Cur).intervals = 0
        /\ Tick(Cur).gameOverTimeout.pending
        /\ RevealGameOver(Tick(Cur)).gameOver = [reason |-> "time", winner |-> Other(Turn(game))]

\* a flag has fallen: the clock is stopped and the reveal is pending
C8_Witness ==
    /\ gameOverTimeout.pending
    /\ gameOverTimeout.reason = "time"
    /\ TimeToMove <= 0
    /\ ~running

\* C9: dismissGameOver() or reset() called while the deferred reveal is
\* pending cancels it, so the stale record cannot appear afterwards.
C9_DismissOrResetCancelsReveal ==
    gameOverTimeout.pending =>
        /\ ~DismissGameOver(Cur).gameOverTimeout.pending
        /\ ~Reset(Cur).gameOverTimeout.pending

\* C10: a drag past the threshold that is cancelled leaves selection,
\* legalTargets and the drag state as they were before the press, and
\* commits no move.
C10_CancelRestoresPrePress ==
    \A mod \in Modalities, from \in Squares, sq \in Squares \cup {None} :
        (DragTo(Cur, mod, from, sq).touchDrag.active /\ ~touchDrag.active) =>
            LET r == CancelActiveDrag(DragTo(Cur, mod, from, sq)) IN
            /\ r.game = game
            /\ r.touchDrag = touchDrag
            /\ r.selected = selected
            /\ LegalTargetsOf(r.game, r.selected) = LegalTargetsOf(game, selected)

\* a press on from, a move past the threshold over via, and a move back over from
DragBack(st, mod, from, via) ==
    MoveOf(DragTo(st, mod, from, via), mod, DragThreshold + 1, from)

\* the modality whose listeners the gesture in progress has bound
Dragging(mod) == touchDrag.active /\ bound[mod] /\ listeners[mod] > 0

\* C11: a drag that crossed the threshold and is released over its source
\* square commits no move (position, history, lastMove, promotion unchanged)
\* and leaves selection on the source square, which is what the drag set it
\* to; checked for the release of a gesture in progress and for the whole
\* gesture (press, move away, move back, release) in each modality.
C11_ReleaseOnOriginKeepsSelection ==
    /\ \A mod \in Modalities :
          (Dragging(mod) /\ touchDrag.moved /\ touchDrag.currentOverSquare = touchDrag.from
              /\ selected = touchDrag.from) =>
            LET r == ReleaseOf(Cur, mod) IN
            /\ r.game = game
            /\ "commit" \notin r.ev
            /\ r.lastMoveSquares = lastMoveSquares
            /\ r.promotion = promotion
            /\ r.selected = touchDrag.from
            /\ ~r.touchDrag.active
    /\ \A mod \in Modalities, from \in Squares, via \in Squares \cup {None} :
          (~touchDrag.active /\ PressOf(Cur, mod, from).touchDrag.active) =>
            LET d == DragBack(Cur, mod, from, via)
                r == ReleaseOf(d, mod)
            IN  /\ d.selected = from
                /\ r.game = game
                /\ "commit" \notin r.ev
                /\ r.lastMoveSquares = lastMoveSquares
                /\ r.promotion = promotion
                /\ r.selected = from

\* a dragged piece is back over its source square with the clock running and
\* legal targets to drop it on
C11_Witness ==
    /\ touchDrag.active
    /\ touchDrag.moved
    /\ touchDrag.currentOverSquare = touchDrag.from
    /\ selected = touchDrag.from
    /\ running
    /\ LegalTargetsOf(game, selected) # {}
    /\ lastMoveSquares # {}

\* C12: in a state where running is false, no tap, drop or promotion choice
\* commits a move.
C12_NoCommitWhenNotRunning ==
    ~running =>
        \A r \in TapOutcomes \cup DropOutcomes \cup PromoteOutcomes : "commit" \notin r.ev

\* a flag has fallen in this game: remaining times only go to zero or below
\* by the tick that calls onFlag
FlagFallen == whiteTimeMs <= 0 \/ blackTimeMs <= 0

\* C13: once a flag has fallen, no tap, drop, promotion choice or redo
\* commits a move, before the reveal, while the record shows and after it is
\* dismissed.
C13_NoCommitAfterFlagFall ==
    FlagFallen => \A r \in MoveOutcomes : "commit" \notin r.ev

\* C14: selection is empty or names a square that holds a piece of the side
\* to move.
C14_SelectionIsOwnPiece ==
    selected = None \/ selected \in OwnSquares(Cur)

\* C15: running is true exactly when one interval timer is active, there is
\* never more than one timer, startClocks() on a running clock and
\* pauseClocks() on a paused clock change nothing.
C15_RunningIffOneTimer ==
    /\ intervals \in {0, 1}
    /\ running <=> intervals = 1
    /\ running <=> timerId
    /\ running => StartClocks(Cur) = Cur
    /\ ~running => PauseClocks(Cur) = Cur

\* the clock was started again while running, moves were committed, and one
\* timer is active
C15_Witness ==
    /\ running
    /\ intervals = 1
    /\ HistoryLength(game) = 2
    /\ StartClocks(Cur) = Cur

\* the base a time control configures, in ms
ConfiguredBase(tc) == (tc[1] * 60 * 1000) \div 1200

\* the clock is paused with the configured base on both sides, White's
\* clock being the active one
ClockFresh(st, base) ==
    /\ ~st.running
    /\ ~st.timerId
    /\ st.intervals = 0
    /\ st.baseMs = base
    /\ st.whiteTimeMs = base
    /\ st.blackTimeMs = base
    /\ st.activeColor = "w"

\* C16: setTimeControl(base, inc), resetClocks(), reset() and a successful
\* loadFEN() leave the clock paused (running false, no timer), both remaining
\* times at the configured base and activeColor white.
C16_ResetsLeaveClockFresh ==
    /\ \A tc \in TimeControls :
          ClockFresh(SetTimeControl(Cur, tc[1], tc[2]), ConfiguredBase(tc))
    /\ ClockFresh(ResetClocks(Cur), baseMs)
    /\ ClockFresh(Reset(Cur), baseMs)
    /\ \A fenStr \in FenStrings :
          ParseFen(fenStr) # None => ClockFresh(LoadFEN(Cur, fenStr), baseMs)

\* a position was loaded on a configured time control: the clock is fresh on
\* the loaded position
C16_Witness ==
    /\ baseMs # InitialBaseMs
    /\ game = [pos |-> ParseFen("fen-check"), hist |-> <<>>]
    /\ ClockFresh(Cur, baseMs)

\* the session state an operation without effect leaves alone
SameSession(r, st) ==
    /\ r.game = st.game
    /\ r.redoStack = st.redoStack
    /\ r.selected = st.selected
    /\ r.lastMoveSquares = st.lastMoveSquares
    /\ r.gameOver = st.gameOver

\* C17: while a promotion is pending or the gameOver record is set, undo()
\* and redo() change neither position, history, redoStack, selection,
\* lastMove nor gameOver.
C17_UndoRedoUnavailable ==
    (promotion.ask \/ gameOver # NoGameOver) =>
        SameSession(Undo(Cur), Cur) /\ SameSession(Redo(Cur), Cur)

\* the strings the rules engine rejects
RejectedFens == {fenStr \in FenStrings : ParseFen(fenStr) = None}

\* C18: loadFEN of a string the rules engine rejects keeps position,
\* history, redoStack, selection, lastMove, gameOver, both remaining times
\* and running as they were, and reports the error.
C18_RejectedLoadKeepsSession ==
    \A fenStr \in RejectedFens :
        LET r == LoadFEN(Cur, fenStr) IN
        /\ SameSession(r, Cur)
        /\ r.whiteTimeMs = whiteTimeMs
        /\ r.blackTimeMs = blackTimeMs
        /\ r.running = running
        /\ r.timerId = timerId
        /\ r.intervals = intervals
        /\ r.promotion = promotion
        /\ r.gameOverTimeout = gameOverTimeout
        /\ "alert" \in r.ev

\* a rejected load in mid-game: clock running, time used, a move to redo, a
\* piece selected
C18_Witness ==
    /\ running
    /\ HistoryLength(game) > 0
    /\ redoStack # <<>>
    /\ selected # None
    /\ TimeToMove < baseMs
    /\ "alert" \in LoadFEN(Cur, "fen-invalid").ev

\* the one cue the priority rule gives a committed move, from the position
\* it leaves: gameover on checkmate, else check, castle, capture, move
CueByPriority(g) ==
    LET m == LastMove(g) IN
    IF IsCheckmate(g) THEN "gameover"
    ELSE IF IsCheck(g) THEN "check"
    ELSE IF m.flags \cap {"k", "q"} # {} THEN "castle"
    ELSE IF m.flags \cap {"c", "e"} # {} THEN "capture"
    ELSE "move"

\* an outcome that commits carries that cue and no other
OneCueIfCommit(st, r) == "commit" \in r.ev => r.cues = <<CueByPriority(r.game)>>

TimeOf(st, c) == IF c = "w" THEN st.whiteTimeMs ELSE st.blackTimeMs

\* an outcome that commits gives the mover the increment and nothing to the
\* other side; one that does not adds no time to a game that is and stays
\* running
IncrementIfCommit(st, r) ==
    IF "commit" \in r.ev
    THEN /\ TimeOf(r, Turn(st.game)) = TimeOf(st, Turn(st.game)) + st.incrementMs
         /\ TimeOf(r, Other(Turn(st.game))) = TimeOf(st, Other(Turn(st.game)))
         /\ LastMove(r.game).color = Turn(st.game)
    ELSE (st.running /\ r.running) => \A c \in Colors : TimeOf(r, c) <= TimeOf(st, c)

\* an operation that commits nothing and leaves the game running adds no time
NoTimeAdded(st, r) ==
    ("commit" \notin r.ev /\ r.running) => \A c \in Colors : TimeOf(r, c) <= TimeOf(st, c)

\* C20: a commit adds exactly incrementMs to the remaining time of the side
\* that moved and leaves the other side's time (with incrementMs = 0 it
\* changes neither); an operation that commits nothing adds no time to a
\* game that is and stays running.
C20_IncrementToMoverOnly ==
    /\ \A name \in Squares : IncrementIfCommit(Cur, OnSquareClick(Cur, name))
    /\ \A i \in DropInputs : IncrementIfCommit(Cur, Drop(Cur, i[1], i[2], i[3]))
    /\ \A i \in PromoteInputs : IncrementIfCommit(Cur, Promote(Cur, i[1], i[2]))
    /\ IncrementIfCommit(Cur, Redo(Cur))
    /\ running =>
          /\ \A mod \in Modalities, from \in Squares :
                NoTimeAdded(Cur, PressOf(Cur, mod, from))
          /\ \A i \in DragInputs : NoTimeAdded(Cur, DragTo(Cur, i[1], i[2], i[3]))
          /\ \A r \in ControlOutcomes : NoTimeAdded(Cur, r)

\* White has moved on a control with increment and holds the bonus, Black
\* does not
C20_Witness ==
    /\ incrementMs > 0
    /\ HistoryLength(game) = 1
    /\ whiteTimeMs = baseMs + incrementMs
    /\ blackTimeMs = baseMs
    /\ running

\* C21: a tick that is not skipped takes exactly 100 ms from the remaining
\* time of the engine's side to move and leaves the other side's time, so a
\* tick raises neither remaining time.
C21_TickChargesSideToMove ==
    (intervals > 0 /\ ~promotion.ask) =>
        /\ TimeOf(Tick(Cur), Turn(game)) = TimeOf(Cur, Turn(game)) - TickMs
        /\ TimeOf(Tick(Cur), Other(Turn(game))) = TimeOf(Cur, Other(Turn(game)))
        /\ "decrement" \in Tick(Cur).ev
        /\ Tick(Cur).game = game

\* White has moved and a tick has charged Black, the side to move, alone
C21_Witness ==
    /\ running
    /\ HistoryLength(game) = 1
    /\ Turn(game) = "b"
    /\ blackTimeMs = baseMs - TickMs
    /\ whiteTimeMs = baseMs

\* C22 for one outcome: a gameOver record that is set stays as it is
KeepsRecord(st, r) == r.gameOver = st.gameOver

\* C22: once the gameOver record is set, no tap, press, drag, drop,
\* promotion choice, undo, redo, tick, clock control or timer callback
\* clears or overwrites it; only reset(), loadFEN() and dismissGameOver()
\* may empty it.
C22_RecordClearedOnlyExplicitly ==
    gameOver # NoGameOver =>
        /\ \A name \in Squares : KeepsRecord(Cur, OnSquareClick(Cur, name))
        /\ \A i \in DropInputs : KeepsRecord(Cur, Drop(Cur, i[1], i[2], i[3]))
        /\ \A i \in DragInputs : KeepsRecord(Cur, DragTo(Cur, i[1], i[2], i[3]))
        /\ \A i \in PromoteInputs : KeepsRecord(Cur, Promote(Cur, i[1], i[2]))
        /\ \A r \in {Undo(Cur), Redo(Cur), StartClocks(Cur), PauseClocks(Cur),
                      ResetClocks(Cur)} : KeepsRecord(Cur, r)
        /\ \A tc \in TimeControls : KeepsRecord(Cur, SetTimeControl(Cur, tc[1], tc[2]))
        /\ intervals > 0 => KeepsRecord(Cur, Tick(Cur))
        /\ gameOverTimeout.pending => KeepsRecord(Cur, RevealGameOver(Cur))

\* the session fields of a fresh session on the position of st
FreshSession(st) ==
    /\ st.selected = None
    /\ st.lastMoveSquares = {}
    /\ st.redoStack = <<>>
    /\ HistoryLength(st.game) = 0
    /\ IsGameOver(st.game) \/ st.gameOver = NoGameOver
    /\ ~st.promotion.ask
    /\ ClockFresh(st, st.baseMs)

\* C23: reset() and a successful loadFEN() leave a fresh session: selection,
\* lastMove and redoStack empty, gameOver empty, no promotion pending, the
\* clock paused at base.
C23_ResetLeavesFreshSession ==
    /\ FreshSession(Reset(Cur))
    /\ \A fenStr \in FenStrings \ RejectedFens : FreshSession(LoadFEN(Cur, fenStr))

\* a handler that was a silent no-op: selection, lastMove, promotion,
\* position and history as before, no cue
Silent(st, r) ==
    /\ r.selected = st.selected
    /\ r.lastMoveSquares = st.lastMoveSquares
    /\ r.promotion = st.promotion
    /\ r.game = st.game
    /\ r.cues = <<>>

\* C24: when the game is over or the clock is not running, every tap, press,
\* drag and drop leaves selection, lastMove, promotion, history and position
\* as they are and emits no cue.
C24_RefusedInputIsSilent ==
    (IsGameOver(game) \/ gameOver # NoGameOver \/ ~running) =>
        /\ \A name \in Squares : Silent(Cur, OnSquareClick(Cur, name))
        /\ \A mod \in Modalities, from \in Squares :
              /\ Silent(Cur, PressOf(Cur, mod, from))
              /\ \A sq \in HoverSquares :
                    /\ Silent(Cur, DragTo(Cur, mod, from, sq))
                    /\ Silent(Cur, Drop(Cur, mod, from, sq))

\* C25: a successful undo() leaves the gameOver record empty (the reverted
\* position being one that is not over) and no deferred reveal pending that
\* could set it later.
C25_UndoCancelsReveal ==
    HistoryLength(game) > 0 =>
        /\ ~IsGameOver(Undo(Cur).game) => Undo(Cur).gameOver = NoGameOver
        /\ ~Undo(Cur).gameOverTimeout.pending

\* the squares that are empty or hold a piece of the side not to move
ForeignSquares(st) == Squares \ OwnSquares(st)

\* C26: with nothing selected, a tap on an empty square or on an opponent
\* piece changes nothing and emits no cue when the side to move is not in
\* check, and only triggers the check-flash when it is.
C26_IdleTapElsewhere ==
    (selected = None /\ Accepting(Cur) /\ suppressLeft = 0) =>
        \A name \in ForeignSquares(Cur) :
            OnSquareClick(Cur, name) = IF IsCheck(game) THEN TriggerCheckFlash(Cur) ELSE Cur

\* the other pieces of the side to move that the selected piece cannot move to
OtherOwnSquares(st) ==
    (OwnSquares(st) \ {st.selected}) \ LegalTargetsOf(st.game, st.selected)

\* the outcome the selection rule gives a tap or drop on another own piece
SwitchesSelection(st, r, name) ==
    IF StuckInCheck(st, name)
    THEN "flash" \in r.ev /\ r.cues = <<"illegal">> /\ r.selected = st.selected
    ELSE r.selected = name /\ r.cues = <<>>

\* C27: with a piece selected, a tap and a drop on another piece of the side
\* to move have the same outcome: flash and illegal cue with the selection
\* kept when in check and that piece cannot move, else the selection
\* switched to that piece with no illegal cue.
C27_TapAndDropSwitchAlike ==
    (selected \in OwnSquares(Cur) /\ Accepting(Cur) /\ suppressLeft = 0 /\ ~touchDrag.active) =>
        \A name \in OtherOwnSquares(Cur) :
            /\ SwitchesSelection(Cur, OnSquareClick(Cur, name), name)
            /\ \A mod \in Modalities :
                  SwitchesSelection(Cur, Drop(Cur, mod, selected, name), name)

\* the lastMove highlight after a handler: the squares of the move when it
\* committed one, else what it was
HighlightKept(st, r) ==
    r.lastMoveSquares =
        IF "commit" \in r.ev THEN {LastMove(r.game).from, LastMove(r.game).to}
        ELSE st.lastMoveSquares

\* C28: every commit sets lastMove to the from and to squares of the move,
\* and a tap or drop that commits nothing (a deselecting tap, a tap or drop
\* on an illegal target) leaves lastMove as it was.
C28_DeselectKeepsLastMove ==
    /\ \A name \in Squares : HighlightKept(Cur, OnSquareClick(Cur, name))
    /\ \A i \in DropInputs : HighlightKept(Cur, Drop(Cur, i[1], i[2], i[3]))
    /\ \A i \in PromoteInputs : HighlightKept(Cur, Promote(Cur, i[1], i[2]))
    /\ HighlightKept(Cur, Redo(Cur))

\* C29: in each modality a press on a piece of the side to move leaves
\* selection as it was, and so does a press released without a move past
\* the threshold; selection goes to the source square once a move exceeds
\* the threshold.
C29_PressKeepsSelection ==
    ~touchDrag.active =>
        \A mod \in Modalities, from \in OwnSquares(Cur) :
            LET p == PressOf(Cur, mod, from) IN
            /\ p.selected = selected
            /\ ReleaseOf(p, mod).selected = selected
            /\ \A sq \in HoverSquares :
                  /\ MoveOf(p, mod, DragThreshold, sq).selected = selected
                  /\ ReleaseOf(MoveOf(p, mod, DragThreshold, sq), mod).selected = selected
                  /\ p.touchDrag.active => DragTo(Cur, mod, from, sq).selected = from

\* the release of the gesture in progress is a drop on another square
RealDrop ==
    /\ touchDrag.moved
    /\ touchDrag.currentOverSquare # None
    /\ touchDrag.currentOverSquare # touchDrag.from

\* C30: a click that arrives while the 250 ms window of a drop is open
\* changes nothing and emits no cue; the window is opened by the release of
\* a drag over a square other than the source, and by no other release.
C30_ClickAfterDropIgnored ==
    /\ suppressLeft > 0 => \A name \in Squares : OnSquareClick(Cur, name) = Cur
    /\ \A mod \in Modalities :
          /\ Dragging(mod) =>
                ReleaseOf(Cur, mod).suppressLeft =
                    IF RealDrop THEN SuppressMs ELSE suppressLeft
          /\ ~touchDrag.active => ReleaseOf(Cur, mod) = Cur

\* a drop has just committed a move and the click that follows it would
\* select a piece if it were not ignored
C30_Witness ==
    /\ suppressLeft > 0
    /\ running
    /\ HistoryLength(game) > 0
    /\ lastMoveSquares # {}
    /\ \E name \in Squares : OnSquareClick([Cur EXCEPT !.suppressLeft = 0], name).selected = name

\* C31: whenever no drag is in progress, no floating ghost exists and no move
\* or release listener is registered; cancelActiveDrag() with no drag in
\* progress changes nothing.
C31_NoDragNoLeftovers ==
    ~touchDrag.active =>
        /\ ghosts = 0
        /\ \A mod \in Modalities : listeners[mod] = 0
        /\ CancelActiveDrag(Cur) = Cur

\* C32: while the clock runs no terminal condition holds: the engine does not
\* report game over and no flag has fallen since the clocks were last reset.
C32_RunningOnlyInLiveGame ==
    running => ~IsGameOver(game) /\ ~FlagFallen

\* game.history({verbose: true}): the moves of one colour in the history
MovesBy(g, c) ==
    Cardinality({i \in 1..Len(g.hist) : Turn([pos |-> g.hist[i].prev, hist |-> <<>>]) = c})

\* C33: each side's remaining time is at most baseMs plus incrementMs for
\* every move of that side in the current history.
C33_TimeBoundedByHistory ==
    \A c \in Colors : TimeOf(Cur, c) <= baseMs + incrementMs * MovesBy(game, c)

\* C34: the dragging cursor is on only while a drag that crossed the
\* threshold is in progress.
C34_CursorOnlyWhileDragging ==
    draggingCursor => touchDrag.active /\ touchDrag.moved

=============================================================================
